---------------------------- MODULE Spec2Model ----------------------------
(*************************************************************************)
(* Extraction-and-valuation core of PriceAIFB-Dev / market_scout.         *)
(*                                                                        *)
(*   market_scout/utils/__init__.py : extract_price, extract_city,        *)
(*                                    normalize_text, categorize_product  *)
(*   src/app/services/scoring.py    : ScoringService                      *)
(*   src/app/core/config.py         : Settings                            *)
(*   market_scout/adapters/llm.py   : llm_health_check, llm_generate,     *)
(*                                    llm_normalize_text                  *)
(*   market_scout/scrapers/base.py  : BaseScraper                         *)
(*   market_scout/scrapers/yad2.py  : Yad2Scraper.parse_listing           *)
(*   main.py                        : the scrape command                  *)
(*                                                                        *)
(* A Python str is a sequence of characters.  A character is written as   *)
(* a one-character TLA+ string when it is printable ASCII and as its      *)
(* code point ("U+05D0") otherwise.  Python's None is the empty tuple     *)
(* and a present Optional value v is the one-element tuple <<v>>.         *)
(*************************************************************************)
EXTENDS Integers, Sequences, FiniteSets, TLC

VARIABLES
    pc,               \* where the call is: "call" or "done"
    fn,               \* the function called
    args,             \* its arguments
    result,           \* its outcome
    service,          \* the ScoringService
    calls,            \* the calls the function has made, in order
    ollama_settings,  \* the _ollama_settings of the LLM adapter
    threads,          \* the scoring calls of the threads that share service
    db                \* the committed rows of the listings table

vars == <<pc, fn, args, result, service, calls, ollama_settings, threads, db>>

None == <<>>
Some(v) == <<v>>

\* The outcome of a call: the exception raised, if any, and the value
\* returned, as a one-element tuple.
NoResult == [exc |-> "pending", value |-> <<>>]
Returned(v) == [exc |-> "none", value |-> <<v>>]
Raised(e) == [exc |-> e, value |-> <<>>]

-----------------------------------------------------------------------------
(* Characters and the str methods the utilities use.                       *)

UpperCase ==
    <<"A", "B", "C", "D", "E", "F", "G", "H", "I", "J", "K", "L", "M", "N",
      "O", "P", "Q", "R", "S", "T", "U", "V", "W", "X", "Y", "Z">>

LowerCase ==
    <<"a", "b", "c", "d", "e", "f", "g", "h", "i", "j", "k", "l", "m", "n",
      "o", "p", "q", "r", "s", "t", "u", "v", "w", "x", "y", "z">>

Digits == {"0", "1", "2", "3", "4", "5", "6", "7", "8", "9"}

\* The letters of the Hebrew alphabet, alef to tav.
HebrewLetters ==
    {"U+05D0", "U+05D1", "U+05D2", "U+05D3", "U+05D4", "U+05D5", "U+05D6",
     "U+05D7", "U+05D8", "U+05D9", "U+05DA", "U+05DB", "U+05DC", "U+05DD",
     "U+05DE", "U+05DF", "U+05E0", "U+05E1", "U+05E2", "U+05E3", "U+05E4",
     "U+05E5", "U+05E6", "U+05E7", "U+05E8", "U+05E9", "U+05EA"}

\* The range \u0590-\u05FF of the character class in normalize_text: the
\* letters, and the points and marks that are not letters (sheva U+05B0,
\* maqaf U+05BE, geresh U+05F3).
HebrewBlock == HebrewLetters \cup {"U+05B0", "U+05BE", "U+05F3"}

\* str.isalnum() of one character.
IsAlnum(c) ==
    \/ \E i \in 1..26 : c = UpperCase[i] \/ c = LowerCase[i]
    \/ c \in Digits
    \/ c \in HebrewLetters

\* \w of a str pattern: the alphanumerics and the underscore.
IsWord(c) == IsAlnum(c) \/ c = "_"

\* \s of a str pattern, and the separators of str.split() and str.strip().
IsSpace(c) == c \in {" ", "\t", "\n", "\r", "U+000B", "U+000C", "U+00A0"}

\* str.lower() of one character: only cased letters change.
lower_char(c) ==
    IF \E i \in 1..26 : c = UpperCase[i]
    THEN LowerCase[CHOOSE i \in 1..26 : c = UpperCase[i]]
    ELSE c

str_lower(s) == [i \in 1..Len(s) |-> lower_char(s[i])]

\* k in t, for two str.
str_contains(t, k) ==
    \E i \in 0..(Len(t) - Len(k)) : SubSeq(t, i + 1, i + Len(k)) = k

\* Length of the longest prefix of s without whitespace.
WordLen(s) ==
    IF \E i \in 1..Len(s) : IsSpace(s[i])
    THEN (CHOOSE i \in 1..Len(s) :
              IsSpace(s[i]) /\ \A j \in 1..(i - 1) : ~IsSpace(s[j])) - 1
    ELSE Len(s)

\* str.split() without arguments: the maximal whitespace-free runs.
RECURSIVE str_split(_)
str_split(s) ==
    IF s = <<>> THEN <<>>
    ELSE IF IsSpace(Head(s)) THEN str_split(Tail(s))
    ELSE LET n == WordLen(s)
         IN  <<SubSeq(s, 1, n)>> \o str_split(SubSeq(s, n + 1, Len(s)))

\* sep.join(words).
RECURSIVE str_join(_, _)
str_join(sep, words) ==
    IF words = <<>> THEN <<>>
    ELSE IF Len(words) = 1 THEN words[1]
    ELSE words[1] \o sep \o str_join(sep, Tail(words))

\* str.strip() without arguments.
RECURSIVE str_strip(_)
str_strip(s) ==
    IF s = <<>> THEN <<>>
    ELSE IF IsSpace(Head(s)) THEN str_strip(Tail(s))
    ELSE IF IsSpace(s[Len(s)]) THEN str_strip(SubSeq(s, 1, Len(s) - 1))
    ELSE s

\* Truthiness of an Optional[str]: None and "" are falsy.
Falsy(text) == text = None \/ text[1] = <<>>

-----------------------------------------------------------------------------
(* normalize_text                                                          *)

\* The characters the pattern [^\w\s\u0590-\u05FF] does not match.
KeptByPattern(c) == IsWord(c) \/ IsSpace(c) \/ c \in HebrewBlock

\* re.sub(r"[^\w\s\u0590-\u05FF]", " ", text)
sub_special(text) ==
    [i \in 1..Len(text) |-> IF KeptByPattern(text[i]) THEN text[i] ELSE " "]

\* normalize_text with str(text) in place of the guard on None.
normalize_text_str_of_none(text) ==
    IF text = None THEN <<"N", "o", "n", "e">>
    ELSE str_strip(sub_special(str_join(<<" ">>, str_split(text[1]))))

normalize_text(text) ==
    IF Falsy(text) THEN <<>>
    ELSE str_strip(sub_special(str_join(<<" ">>, str_split(text[1]))))

-----------------------------------------------------------------------------
(* extract_price                                                           *)

\* A float that has a finite decimal expansion: m / 10^e, with no trailing
\* zero in the fraction, so that equal floats are equal records.
RECURSIVE Decimal(_, _)
Decimal(m, e) ==
    IF e > 0 /\ m % 10 = 0 THEN Decimal(m \div 10, e - 1)
    ELSE [m |-> m, e |-> e]

DigitChars == <<"0", "1", "2", "3", "4", "5", "6", "7", "8", "9">>

\* \d of a str pattern.
IsDigit(c) == c \in Digits

DigitValue(c) == (CHOOSE i \in 1..10 : DigitChars[i] = c) - 1

\* The characters of s other than those in the set drop.
RECURSIVE str_remove(_, _)
str_remove(s, drop) ==
    IF s = <<>> THEN <<>>
    ELSE IF Head(s) \in drop THEN str_remove(Tail(s), drop)
    ELSE <<Head(s)>> \o str_remove(Tail(s), drop)

\* The currency symbols removed, the thousands separators left in.
clean_price_keep_commas(text) ==
    str_remove(text, {"U+20AA", "$", "U+20AC"})

\* re.sub(r"[\u20aa$\u20ac,]", "", text)
clean_price(text) == str_remove(text, {"U+20AA", "$", "U+20AC", ","})

\* The number of consecutive digits of s from position i on.
RECURSIVE DigitRun(_, _)
DigitRun(s, i) ==
    IF i <= Len(s) /\ IsDigit(s[i]) THEN 1 + DigitRun(s, i + 1) ELSE 0

\* The length matched at position j by (?:\.\d{1,2})? : greedy, and empty
\* when no digit follows the point.
FractionLen(s, j) ==
    IF j <= Len(s) /\ s[j] = "." /\ DigitRun(s, j + 1) >= 1
    THEN IF DigitRun(s, j + 1) >= 2 THEN 3 ELSE 2
    ELSE 0

\* The length matched at position j by (?:,\d{3})* : greedy.
RECURSIVE GroupsLen(_, _)
GroupsLen(s, j) ==
    IF j <= Len(s) /\ s[j] = "," /\ DigitRun(s, j + 1) >= 3
    THEN 4 + GroupsLen(s, j + 4)
    ELSE 0

\* Both patterns begin with \d+ and everything after it is optional, so
\* re.search matches at the first digit of the text.
FirstDigit(s) ==
    IF \E i \in 1..Len(s) : IsDigit(s[i])
    THEN CHOOSE i \in 1..Len(s) :
             IsDigit(s[i]) /\ \A j \in 1..(i - 1) : ~IsDigit(s[j])
    ELSE 0

\* The simple pattern with the decimals required: r"(\d+\.\d{1,2})" at the
\* first digit.
search_simple_decimals_only(s) ==
    LET i == FirstDigit(s)
        n == DigitRun(s, i)
    IN  IF i = 0 \/ FractionLen(s, i + n) = 0 THEN None
        ELSE Some(SubSeq(s, i, i + n + FractionLen(s, i + n) - 1))

\* re.search(r"(\d+(?:\.\d{1,2})?)", s): group 1, or None.
search_simple(s) ==
    LET i == FirstDigit(s)
        n == DigitRun(s, i)
    IN  IF i = 0 THEN None
        ELSE Some(SubSeq(s, i, i + n + FractionLen(s, i + n) - 1))

\* re.search(r"(\d+(?:,\d{3})*(?:\.\d{1,2})?)", s): group 1, or None.
search_thousands(s) ==
    LET i == FirstDigit(s)
        n == DigitRun(s, i)
        g == GroupsLen(s, i + n)
    IN  IF i = 0 THEN None
        ELSE Some(SubSeq(s, i, i + n + g + FractionLen(s, i + n + g) - 1))

price_patterns == <<"simple", "thousands">>

\* re.match in place of re.search: a match only at the start of the text.
re_search_anchored(pattern, s) ==
    IF s # <<>> /\ IsDigit(s[1])
    THEN IF pattern = "simple" THEN search_simple(s) ELSE search_thousands(s)
    ELSE None

re_search(pattern, s) ==
    IF pattern = "simple" THEN search_simple(s) ELSE search_thousands(s)

\* The value of a run of digits.
RECURSIVE int_of(_)
int_of(s) ==
    IF s = <<>> THEN 0
    ELSE int_of(SubSeq(s, 1, Len(s) - 1)) * 10 + DigitValue(s[Len(s)])

\* float(s) succeeds on digits with at most one point among them and
\* raises ValueError on the other strings of digits, points and commas.
float_ok(s) ==
    /\ \E i \in 1..Len(s) : IsDigit(s[i])
    /\ \A i \in 1..Len(s) : IsDigit(s[i]) \/ s[i] = "."
    /\ Cardinality({i \in 1..Len(s) : s[i] = "."}) <= 1

\* float(s), where float_ok(s).
float_of(s) ==
    LET e == IF \E i \in 1..Len(s) : s[i] = "."
             THEN Len(s) - (CHOOSE i \in 1..Len(s) : s[i] = ".")
             ELSE 0
    IN  Decimal(int_of(str_remove(s, {"."})), e)

\* for pattern in price_patterns: ... from the k-th pattern on.
RECURSIVE try_patterns(_, _)
try_patterns(cleaned, k) ==
    IF k > Len(price_patterns) THEN None
    ELSE LET match == re_search(price_patterns[k], cleaned)
             price_str == str_remove(match[1], {","})
         IN  IF match # None /\ float_ok(price_str)
             THEN Some(float_of(price_str))
             ELSE try_patterns(cleaned, k + 1)

\* extract_price with patterns that begin with an optional minus sign.
extract_price_signed(text) ==
    IF Falsy(text) THEN None
    ELSE LET cleaned == clean_price(text[1])
             price == try_patterns(cleaned, 1)
             i == FirstDigit(cleaned)
         IN  IF price # None /\ i > 1 /\ cleaned[i - 1] = "-"
             THEN Some([m |-> 0 - price[1].m, e |-> price[1].e])
             ELSE price

extract_price(text) ==
    IF Falsy(text) THEN None
    ELSE try_patterns(clean_price(text[1]), 1)

-----------------------------------------------------------------------------
(* extract_city                                                            *)

\* Common Israeli cities: sixteen Hebrew names, then six English names.
cities ==
    << <<"U+05EA", "U+05DC", " ", "U+05D0", "U+05D1", "U+05D9", "U+05D1">>,
       <<"U+05D7", "U+05D9", "U+05E4", "U+05D4">>,
       <<"U+05D9", "U+05E8", "U+05D5", "U+05E9", "U+05DC", "U+05D9", "U+05DD">>,
       <<"U+05D1", "U+05D0", "U+05E8", " ", "U+05E9", "U+05D1", "U+05E2">>,
       <<"U+05E0", "U+05EA", "U+05E0", "U+05D9", "U+05D4">>,
       <<"U+05E4", "U+05EA", "U+05D7", " ", "U+05EA", "U+05E7", "U+05D5", "U+05D5", "U+05D4">>,
       <<"U+05D0", "U+05E9", "U+05D3", "U+05D5", "U+05D3">>,
       <<"U+05E8", "U+05D9", "U+05E9", "U+05D5", "U+05DF", " ", "U+05DC", "U+05E6", "U+05D9", "U+05D5", "U+05DF">>,
       <<"U+05D0", "U+05E9", "U+05E7", "U+05DC", "U+05D5", "U+05DF">>,
       <<"U+05E8", "U+05E2", "U+05E0", "U+05E0", "U+05D4">>,
       <<"U+05E8", "U+05DE", "U+05EA", " ", "U+05D2", "U+05DF">>,
       <<"U+05D4", "U+05E8", "U+05E6", "U+05DC", "U+05D9", "U+05D4">>,
       <<"U+05DB", "U+05E4", "U+05E8", " ", "U+05E1", "U+05D1", "U+05D0">>,
       <<"U+05D7", "U+05D5", "U+05DC", "U+05D5", "U+05DF">>,
       <<"U+05D1", "U+05EA", " ", "U+05D9", "U+05DD">>,
       <<"U+05E8", "U+05DE", "U+05DC", "U+05D4">>,
       <<"T", "e", "l", " ", "A", "v", "i", "v">>,
       <<"H", "a", "i", "f", "a">>,
       <<"J", "e", "r", "u", "s", "a", "l", "e", "m">>,
       <<"B", "e", "e", "r", " ", "S", "h", "e", "v", "a">>,
       <<"N", "e", "t", "a", "n", "y", "a">>,
       <<"P", "e", "t", "a", "h", " ", "T", "i", "k", "v", "a">> >>

\* The loop over cities run from the last entry to the first.
RECURSIVE last_city(_, _)
last_city(text_lower, k) ==
    IF k > Len(cities) THEN None
    ELSE LET city == cities[Len(cities) + 1 - k]
         IN  IF str_contains(text_lower, str_lower(city)) THEN Some(city)
             ELSE last_city(text_lower, k + 1)

\* for city in cities: ... from the k-th city on.
RECURSIVE first_city(_, _)
first_city(text_lower, k) ==
    IF k > Len(cities) THEN None
    ELSE IF str_contains(text_lower, str_lower(cities[k]))
         THEN Some(cities[k])
         ELSE first_city(text_lower, k + 1)

\* extract_city without the lower-casing of the text.
extract_city_case_sensitive(text) ==
    IF Falsy(text) THEN None
    ELSE first_city(text[1], 1)

extract_city(text) ==
    IF Falsy(text) THEN None
    ELSE first_city(str_lower(text[1]), 1)

-----------------------------------------------------------------------------
(* categorize_product                                                      *)

\* The dict of keyword lists, in its insertion order.
categories ==
    << [category |-> "cpu", keywords |->
          << <<"c", "p", "u">>,
             <<"p", "r", "o", "c", "e", "s", "s", "o", "r">>,
             <<"U+05DE", "U+05E2", "U+05D1", "U+05D3">>,
             <<"i", "n", "t", "e", "l">>,
             <<"a", "m", "d">>,
             <<"r", "y", "z", "e", "n">>,
             <<"c", "o", "r", "e">> >>],
       [category |-> "gpu", keywords |->
          << <<"g", "p", "u">>,
             <<"g", "r", "a", "p", "h", "i", "c", "s">>,
             <<"v", "i", "d", "e", "o", " ", "c", "a", "r", "d">>,
             <<"U+05DB", "U+05E8", "U+05D8", "U+05D9", "U+05E1", " ", "U+05DE", "U+05E1", "U+05DA">>,
             <<"n", "v", "i", "d", "i", "a">>,
             <<"a", "m", "d">>,
             <<"r", "t", "x">>,
             <<"g", "t", "x">> >>],
       [category |-> "motherboard", keywords |->
          << <<"m", "o", "t", "h", "e", "r", "b", "o", "a", "r", "d">>,
             <<"U+05DC", "U+05D5", "U+05D7", " ", "U+05D0", "U+05DD">>,
             <<"m", "o", "b", "o">>,
             <<"m", "b">> >>],
       [category |-> "ram", keywords |->
          << <<"r", "a", "m">>,
             <<"m", "e", "m", "o", "r", "y">>,
             <<"U+05D6", "U+05D9", "U+05DB", "U+05E8", "U+05D5", "U+05DF">>,
             <<"d", "d", "r", "4">>,
             <<"d", "d", "r", "5">>,
             <<"g", "b">> >>],
       [category |-> "storage", keywords |->
          << <<"s", "s", "d">>,
             <<"h", "d", "d">>,
             <<"s", "t", "o", "r", "a", "g", "e">>,
             <<"U+05D0", "U+05D7", "U+05E1", "U+05D5", "U+05DF">>,
             <<"h", "a", "r", "d", " ", "d", "r", "i", "v", "e">>,
             <<"n", "v", "m", "e">> >>],
       [category |-> "psu", keywords |->
          << <<"p", "s", "u">>,
             <<"p", "o", "w", "e", "r", " ", "s", "u", "p", "p", "l", "y">>,
             <<"U+05E1", "U+05E4", "U+05E7", " ", "U+05DB", "U+05D5", "U+05D7">>,
             <<"p", "o", "w", "e", "r">> >>],
       [category |-> "cooling", keywords |->
          << <<"c", "o", "o", "l", "i", "n", "g">>,
             <<"c", "o", "o", "l", "e", "r">>,
             <<"f", "a", "n">>,
             <<"U+05E7", "U+05D9", "U+05E8", "U+05D5", "U+05E8">>,
             <<"r", "a", "d", "i", "a", "t", "o", "r">> >>],
       [category |-> "case", keywords |->
          << <<"c", "a", "s", "e">>,
             <<"c", "h", "a", "s", "s", "i", "s">>,
             <<"U+05DE", "U+05D0", "U+05E8", "U+05D6">>,
             <<"t", "o", "w", "e", "r">> >>],
       [category |-> "complete_build", keywords |->
          << <<"U+05DE", "U+05D7", "U+05E9", "U+05D1">>,
             <<"c", "o", "m", "p", "u", "t", "e", "r">>,
             <<"p", "c">>,
             <<"b", "u", "i", "l", "d">>,
             <<"U+05DE", "U+05D5", "U+05E8", "U+05DB", "U+05D1">> >>] >>

\* any(keyword in text for keyword in keywords)
any_keyword(text, keywords) ==
    \E i \in 1..Len(keywords) : str_contains(text, keywords[i])

\* The loop over categories.items() run from the last item to the first.
RECURSIVE last_category(_, _)
last_category(text, k) ==
    IF k > Len(categories) THEN "other"
    ELSE LET item == categories[Len(categories) + 1 - k]
         IN  IF any_keyword(text, item.keywords) THEN item.category
             ELSE last_category(text, k + 1)

\* for category, keywords in categories.items(): ... from the k-th item on.
RECURSIVE first_category(_, _)
first_category(text, k) ==
    IF k > Len(categories) THEN "other"
    ELSE IF any_keyword(text, categories[k].keywords)
         THEN categories[k].category
         ELSE first_category(text, k + 1)

\* categorize_product without the lower-casing of the text.
categorize_product_case_sensitive(title, description) ==
    first_category(title \o <<" ">> \o description, 1)

categorize_product(title, description) ==
    first_category(str_lower(title \o <<" ">> \o description), 1)

-----------------------------------------------------------------------------
(* Floats of the scoring service, kept exact: n / d in lowest terms with   *)
(* d > 0, so that equal numbers are equal records.                         *)

Abs(x) == IF x < 0 THEN -x ELSE x

RECURSIVE GCD(_, _)
GCD(a, b) == IF b = 0 THEN a ELSE GCD(b, a % b)

Rat(n, d) ==
    LET g == GCD(Abs(n), Abs(d))
    IN  IF d < 0 THEN [n |-> (-n) \div g, d |-> (-d) \div g]
        ELSE [n |-> n \div g, d |-> d \div g]

\* float(k) of an int k.
RatInt(k) == [n |-> k, d |-> 1]

\* a + b
RatAdd(a, b) == Rat(a.n * b.d + b.n * a.d, a.d * b.d)

\* a * b
RatMul(a, b) ==
    LET g1 == GCD(Abs(a.n), b.d)
        g2 == GCD(Abs(b.n), a.d)
    IN  Rat((a.n \div g1) * (b.n \div g2), (a.d \div g2) * (b.d \div g1))

\* a / b, for b # 0
RatDiv(a, b) == RatMul(a, Rat(b.d, b.n))

\* a <= b
RatLeq(a, b) == a.n * b.d <= b.n * a.d

\* min(a, b)
RatMin(a, b) == IF RatLeq(a, b) THEN a ELSE b

-----------------------------------------------------------------------------
(* Settings and ScoringService                                             *)

\* Settings with an other_weight of 0.2.
settings_other_weight_02 ==
    [cpu_weight |-> Rat(4, 10),
     gpu_weight |-> Rat(5, 10),
     other_weight |-> Rat(2, 10),
     vram_penalty_threshold |-> 8,
     vram_penalty_factor |-> Rat(85, 100)]

\* Settings with a vram_penalty_factor of 1.15.
settings_vram_penalty_factor_115 ==
    [cpu_weight |-> Rat(4, 10),
     gpu_weight |-> Rat(5, 10),
     other_weight |-> Rat(1, 10),
     vram_penalty_threshold |-> 8,
     vram_penalty_factor |-> Rat(115, 100)]

\* The scoring defaults of Settings.
settings ==
    [cpu_weight |-> Rat(4, 10),
     gpu_weight |-> Rat(5, 10),
     other_weight |-> Rat(1, 10),
     vram_penalty_threshold |-> 8,
     vram_penalty_factor |-> Rat(85, 100)]

\* ScoringService.__init__: the fields of the new service.
ScoringService ==
    [cpu_weight |-> settings.cpu_weight,
     gpu_weight |-> settings.gpu_weight,
     other_weight |-> settings.other_weight,
     vram_threshold |-> settings.vram_penalty_threshold,
     vram_penalty |-> settings.vram_penalty_factor]

\* The blend of RAM and storage without the cap.
other_score_uncapped(components) ==
    RatAdd(RatMul(RatDiv(RatInt(components.ram_gb), RatInt(32)), RatInt(50)),
           RatMul(RatDiv(RatInt(components.storage_gb), RatInt(1000)),
                  RatInt(50)))

\* The other-components score (RAM + storage) of calculate_rvi.
other_score(components) ==
    RatMin(RatAdd(RatMul(RatDiv(RatInt(components.ram_gb), RatInt(32)),
                         RatInt(50)),
                  RatMul(RatDiv(RatInt(components.storage_gb), RatInt(1000)),
                         RatInt(50))),
           RatInt(100))

\* calculate_rvi with the penalty test reduced to gpu_vram_gb <= threshold.
calculate_rvi_penalty_at_zero(self, components) ==
    LET base_rvi ==
            RatAdd(RatAdd(RatMul(components.cpu_score, self.cpu_weight),
                          RatMul(components.gpu_score, self.gpu_weight)),
                   RatMul(other_score(components), self.other_weight))
        rvi ==
            RatMul(RatMul(RatMul(base_rvi, components.platform_score),
                          components.liquidity_score),
                   components.condition_score)
    IN  IF components.gpu_vram_gb <= self.vram_threshold
        THEN RatMul(rvi, self.vram_penalty)
        ELSE rvi

\* calculate_rvi with the penalty test made with gpu_vram_gb < threshold.
calculate_rvi_penalty_below_threshold(self, components) ==
    LET base_rvi ==
            RatAdd(RatAdd(RatMul(components.cpu_score, self.cpu_weight),
                          RatMul(components.gpu_score, self.gpu_weight)),
                   RatMul(other_score(components), self.other_weight))
        rvi ==
            RatMul(RatMul(RatMul(base_rvi, components.platform_score),
                          components.liquidity_score),
                   components.condition_score)
    IN  IF components.gpu_vram_gb > 0
           /\ components.gpu_vram_gb < self.vram_threshold
        THEN RatMul(rvi, self.vram_penalty)
        ELSE rvi

calculate_rvi(self, components) ==
    LET base_rvi ==
            RatAdd(RatAdd(RatMul(components.cpu_score, self.cpu_weight),
                          RatMul(components.gpu_score, self.gpu_weight)),
                   RatMul(other_score(components), self.other_weight))
        rvi ==
            RatMul(RatMul(RatMul(base_rvi, components.platform_score),
                          components.liquidity_score),
                   components.condition_score)
    IN  IF components.gpu_vram_gb > 0
           /\ components.gpu_vram_gb <= self.vram_threshold
        THEN RatMul(rvi, self.vram_penalty)
        ELSE rvi

\* calculate_pvr with the guard reduced to price == 0.
calculate_pvr_zero_only(self, rvi, price) ==
    IF price = RatInt(0) THEN RatInt(0)
    ELSE RatDiv(rvi, price)

calculate_pvr(self, rvi, price) ==
    IF RatLeq(price, RatInt(0)) THEN RatInt(0)
    ELSE RatDiv(rvi, price)

\* The ScoringResult with the final score scaled by 100.
ScoringResult_scale_100(self, price, components, threshold_reached) ==
    LET rvi == calculate_rvi(self, components)
        pvr == calculate_pvr(self, rvi, price)
    IN  [rvi |-> rvi,
         pvr |-> pvr,
         final_score |-> RatMul(pvr, RatInt(100)),
         price |-> price,
         components |-> components,
         vram_penalty_applied |->
             components.gpu_vram_gb > 0 /\ threshold_reached]

\* A ScoringResult that stores the price truncated to an integer.
ScoringResult_int_price(self, price, components, threshold_reached) ==
    LET rvi == calculate_rvi(self, components)
        pvr == calculate_pvr(self, rvi, price)
    IN  [rvi |-> rvi,
         pvr |-> pvr,
         final_score |-> RatMul(pvr, RatInt(1000)),
         price |-> RatInt(price.n \div price.d),
         components |-> components,
         vram_penalty_applied |->
             components.gpu_vram_gb > 0 /\ threshold_reached]

\* The ScoringResult that score_listing builds once the price is accepted.
ScoringResult(self, price, components, threshold_reached) ==
    LET rvi == calculate_rvi(self, components)
        pvr == calculate_pvr(self, rvi, price)
        final_score == RatMul(pvr, RatInt(1000))
        vram_penalty_applied ==
            components.gpu_vram_gb > 0 /\ threshold_reached
    IN  [rvi |-> rvi,
         pvr |-> pvr,
         final_score |-> final_score,
         price |-> price,
         components |-> components,
         vram_penalty_applied |-> vram_penalty_applied]

\* score_listing with the validation reduced to price < 0.
score_listing_accepts_zero(self, price, components) ==
    IF ~RatLeq(RatInt(0), price)
    THEN Raised("ValueError")
    ELSE Returned(ScoringResult(self, price, components,
                      components.gpu_vram_gb <= self.vram_threshold))

\* score_listing with the flag computed with gpu_vram_gb < threshold.
score_listing_below_threshold(self, price, components) ==
    IF RatLeq(price, RatInt(0))
    THEN Raised("ValueError")
    ELSE Returned(ScoringResult(self, price, components,
                      components.gpu_vram_gb < self.vram_threshold))

\* The outcome of score_listing: the ValueError or the returned result.
score_listing(self, price, components) ==
    IF RatLeq(price, RatInt(0))
    THEN Raised("ValueError")
    ELSE Returned(ScoringResult(self, price, components,
                      components.gpu_vram_gb <= self.vram_threshold))

\* The service after calculate_rvi, were the method to keep the multiplier
\* it uses in self.vram_penalty.
self_after_calculate_rvi_keeps_multiplier(self, components) ==
    IF components.gpu_vram_gb > 0
       /\ components.gpu_vram_gb <= self.vram_threshold
    THEN self
    ELSE [self EXCEPT !.vram_penalty = RatInt(1)]

\* The service after calculate_rvi: the method assigns to its local
\* variables (other_score, base_rvi, rvi, vram_penalty_applied) only.
self_after_calculate_rvi(self, components) == self

\* The calls that score_listing makes with the validation left out.
score_listing_calls_unvalidated(self, price, components) ==
    << [fn |-> "calculate_rvi", args |-> [components |-> components]],
       [fn |-> "calculate_pvr",
        args |-> [rvi |-> calculate_rvi(self, components), price |-> price]] >>

\* The calls of its own methods that score_listing makes, in order: none
\* when the validation raises, calculate_rvi and then calculate_pvr after.
score_listing_calls(self, price, components) ==
    IF RatLeq(price, RatInt(0))
    THEN <<>>
    ELSE << [fn |-> "calculate_rvi", args |-> [components |-> components]],
            [fn |-> "calculate_pvr",
             args |-> [rvi |-> calculate_rvi(self, components),
                       price |-> price]] >>

-----------------------------------------------------------------------------
(* LLM adapter: settings                                                   *)

\* OllamaSettings(): enable_llm is False unless ENABLE_LLM is set.
OllamaSettings == [enable_llm |-> FALSE]

\* Whether a str is non-empty and present ("if system_prompt:").
Truthy(x) == ~Falsy(x)

\* The exceptions that are requests.RequestException.
RequestExceptions == {"ConnectionError", "Timeout", "HTTPError"}

IsEnabledCall(enabled) == [fn |-> "is_llm_enabled", returned |-> enabled]

\* is_llm_enabled()
is_llm_enabled(ollama) == ollama.enable_llm

\* The outcome of requests.get(.../api/tags) and of the comparison of the
\* status code: the exception of a failed transport, or the response.
health_check_try(get) ==
    IF get.kind = "connection_error" THEN Raised("ConnectionError")
    ELSE IF get.kind = "timeout" THEN Raised("Timeout")
    ELSE Returned(get.status_code = 200)

\* llm_health_check that lets the RequestException through.
llm_health_check_uncaught(ollama, get) ==
    IF ~is_llm_enabled(ollama) THEN Returned(FALSE)
    ELSE health_check_try(get)

llm_health_check(ollama, get) ==
    IF ~is_llm_enabled(ollama) THEN Returned(FALSE)
    ELSE LET r == health_check_try(get)
         IN  IF r.exc \in RequestExceptions THEN Returned(FALSE) ELSE r

\* The calls of llm_health_check: the reading of the setting, and the
\* request when the LLM is enabled.
llm_health_check_calls(ollama, get) ==
    <<IsEnabledCall(is_llm_enabled(ollama))>>
    \o IF is_llm_enabled(ollama)
       THEN <<[fn |-> "requests.get", url |-> "/api/tags", outcome |-> get]>>
       ELSE <<>>

\* The payload of llm_generate: "system" is set for a non-empty
\* system_prompt only.
payload(prompt, system_prompt) ==
    [prompt |-> prompt,
     stream |-> FALSE,
     system |-> IF Truthy(system_prompt) THEN system_prompt ELSE None]

\* The try block of llm_generate on the outcome of requests.post: a failed
\* transport, an error status (raise_for_status), a body that is not JSON
\* (response.json), a JSON object without "response", a "response" that is
\* not a str (no strip method), or the generated text.
llm_generate_try(post) ==
    IF post.kind = "connection_error" THEN Raised("ConnectionError")
    ELSE IF post.kind = "timeout" THEN Raised("Timeout")
    ELSE IF post.kind = "http_error" THEN Raised("HTTPError")
    ELSE IF post.kind = "invalid_json" THEN Raised("ValueError")
    ELSE IF post.kind = "no_response_field" THEN Raised("LLMRequestError")
    ELSE IF post.kind = "response_not_str" THEN Raised("AttributeError")
    ELSE Returned(str_strip(post.response))

\* llm_generate without its last clause, "except Exception".
llm_generate_without_catch_all(ollama, prompt, system_prompt, post) ==
    IF ~is_llm_enabled(ollama) THEN Raised("LLMDisabledError")
    ELSE LET r == llm_generate_try(post)
         IN  IF r.exc \in RequestExceptions THEN Raised("LLMRequestError")
             ELSE r

llm_generate(ollama, prompt, system_prompt, post) ==
    IF ~is_llm_enabled(ollama) THEN Raised("LLMDisabledError")
    ELSE LET r == llm_generate_try(post)
         IN  IF r.exc = "none" THEN r
             ELSE IF r.exc \in RequestExceptions
             THEN Raised("LLMRequestError")
             ELSE Raised("LLMRequestError")

\* The calls of llm_generate: the reading of the setting, and the request
\* when the LLM is enabled.
llm_generate_calls(ollama, prompt, system_prompt, post) ==
    <<IsEnabledCall(is_llm_enabled(ollama))>>
    \o IF is_llm_enabled(ollama)
       THEN <<[fn |-> "requests.post", url |-> "/api/generate",
               json |-> payload(prompt, system_prompt), outcome |-> post]>>
       ELSE <<>>

normalize_system_prompt ==
    <<"Y", "o", "u", " ", "a", "r", "e", " ", "a", " ", "p", "r", "o", "d",
      "u", "c", "t", " ", "l", "i", "s", "t", "i", "n", "g", " ", "n", "o",
      "r", "m", "a", "l", "i", "z", "e", "r", " ", "f", "o", "r", " ", "c",
      "o", "m", "p", "u", "t", "e", "r", " ", "c", "o", "m", "p", "o", "n",
      "e", "n", "t", "s", ".", " ", "E", "x", "t", "r", "a", "c", "t", " ",
      "a", "n", "d", " ", "s", "t", "a", "n", "d", "a", "r", "d", "i", "z",
      "e", " ", "p", "r", "o", "d", "u", "c", "t", " ", "i", "n", "f", "o",
      "r", "m", "a", "t", "i", "o", "n", " ", "f", "r", "o", "m", " ", "H",
      "e", "b", "r", "e", "w", "/", "E", "n", "g", "l", "i", "s", "h", " ",
      "t", "e", "x", "t", ".", " ", "R", "e", "t", "u", "r", "n", " ", "o",
      "n", "l", "y", " ", "t", "h", "e", " ", "n", "o", "r", "m", "a", "l",
      "i", "z", "e", "d", " ", "p", "r", "o", "d", "u", "c", "t", " ", "n",
      "a", "m", "e", " ", "a", "n", "d", " ", "k", "e", "y", " ", "s", "p",
      "e", "c", "i", "f", "i", "c", "a", "t", "i", "o", "n", "s", ".">>

normalize_prompt(text) ==
    <<"N", "o", "r", "m", "a", "l", "i", "z", "e", " ", "t", "h", "i", "s",
      " ", "p", "r", "o", "d", "u", "c", "t", " ", "l", "i", "s", "t", "i",
      "n", "g", ":", " ">>
    \o text

\* llm_normalize_text that falls back on LLMRequestError only.
llm_normalize_text_request_error_only(ollama, generating, text, post) ==
    IF ~is_llm_enabled(ollama) THEN Returned(text)
    ELSE LET r == llm_generate(generating, normalize_prompt(text),
                               Some(normalize_system_prompt), post)
         IN  IF r.exc \in {"LLMRequestError"}
             THEN Returned(text)
             ELSE r

\* llm_normalize_text, with the settings as they are at its own test of
\* is_llm_enabled() and as they are when llm_generate tests it again.
llm_normalize_text(ollama, generating, text, post) ==
    IF ~is_llm_enabled(ollama) THEN Returned(text)
    ELSE LET r == llm_generate(generating, normalize_prompt(text),
                               Some(normalize_system_prompt), post)
         IN  IF r.exc \in {"LLMDisabledError", "LLMRequestError"}
             THEN Returned(text)
             ELSE r

llm_normalize_text_calls(ollama, generating, text, post) ==
    <<IsEnabledCall(is_llm_enabled(ollama))>>
    \o IF is_llm_enabled(ollama)
       THEN llm_generate_calls(generating, normalize_prompt(text),
                               Some(normalize_system_prompt), post)
       ELSE <<>>


-----------------------------------------------------------------------------
(* Scrapers: BaseScraper and Yad2Scraper                                   *)

\* The word lists of normalize_condition, in the order of its tests.
conditions ==
    << [condition |-> "new", words |->
          << <<"U+05D7", "U+05D3", "U+05E9">>,
             <<"n", "e", "w">>,
             <<"b", "r", "a", "n", "d", " ", "n", "e", "w">> >>],
       [condition |-> "like_new", words |->
          << <<"U+05DB", "U+05DE", "U+05D5", " ", "U+05D7", "U+05D3", "U+05E9">>,
             <<"l", "i", "k", "e", " ", "n", "e", "w">>,
             <<"e", "x", "c", "e", "l", "l", "e", "n", "t">> >>],
       [condition |-> "excellent", words |->
          << <<"U+05DE", "U+05E6", "U+05D5", "U+05D9", "U+05DF">>,
             <<"e", "x", "c", "e", "l", "l", "e", "n", "t">> >>],
       [condition |-> "good", words |->
          << <<"U+05D8", "U+05D5", "U+05D1">>,
             <<"g", "o", "o", "d">> >>],
       [condition |-> "fair", words |->
          << <<"U+05E1", "U+05D1", "U+05D9", "U+05E8">>,
             <<"f", "a", "i", "r">>,
             <<"a", "v", "e", "r", "a", "g", "e">> >>],
       [condition |-> "poor", words |->
          << <<"U+05D2", "U+05E8", "U+05D5", "U+05E2">>,
             <<"p", "o", "o", "r">>,
             <<"b", "a", "d">> >>],
       [condition |-> "for_parts", words |->
          << <<"U+05D7", "U+05DC", "U+05E7", "U+05D9", "U+05DD">>,
             <<"p", "a", "r", "t", "s">>,
             <<"b", "r", "o", "k", "e", "n">> >>] >>

\* The if / elif chain of normalize_condition from the k-th test on.
RECURSIVE first_condition(_, _)
first_condition(condition_text, k) ==
    IF k > Len(conditions) THEN "good"
    ELSE IF any_keyword(condition_text, conditions[k].words)
         THEN conditions[k].condition
         ELSE first_condition(condition_text, k + 1)

\* BaseScraper.normalize_condition
normalize_condition(condition_text) ==
    IF condition_text = <<>> THEN "good"
    ELSE first_condition(str_lower(condition_text), 1)

\* The least index i >= from with s[i] in chars, or Len(s) + 1.
IndexOf(s, chars, from) ==
    IF \E i \in from..Len(s) : s[i] \in chars
    THEN CHOOSE i \in from..Len(s) :
             s[i] \in chars /\ \A j \in from..(i - 1) : s[j] \notin chars
    ELSE Len(s) + 1

\* urlparse(link).path of "scheme://netloc/path?query#fragment", and of a
\* link without "//": what lies before the query and the fragment, after
\* the netloc if there is one.
url_path(link) ==
    LET slash == IndexOf(link, {"/"}, 1)
        has_netloc == slash < Len(link) /\ link[slash + 1] = "/"
        start == IF has_netloc
                 THEN IndexOf(link, {"/", "?", "#"}, slash + 2)
                 ELSE 1
        end == IndexOf(link, {"?", "#"}, start)
    IN  SubSeq(link, start, end - 1)

\* s.split(sep) for a one-character sep.
RECURSIVE str_split_on(_, _)
str_split_on(s, sep) ==
    LET i == IndexOf(s, {sep}, 1)
    IN  IF i > Len(s) THEN <<s>>
        ELSE <<SubSeq(s, 1, i - 1)>>
             \o str_split_on(SubSeq(s, i + 1, Len(s)), sep)

\* str.isdigit()
isdigit(s) == s # <<>> /\ \A i \in 1..Len(s) : IsDigit(s[i])

\* for part in reversed(path_parts): the first k parts, from the last one.
RECURSIVE last_digit_part(_, _)
last_digit_part(path_parts, k) ==
    IF k = 0 THEN None
    ELSE IF isdigit(path_parts[k]) THEN Some(path_parts[k])
    ELSE last_digit_part(path_parts, k - 1)

\* The source ID that parse_listing takes from the link.
source_id_of(link) ==
    IF link = <<>> \/ url_path(link) = <<>> THEN None
    ELSE LET path_parts == str_split_on(url_path(link), "/")
         IN  last_digit_part(path_parts, Len(path_parts))

\* "if not price": None and 0.0 are falsy.
price_falsy(price) == price = None \/ price[1].m = 0

\* The ListingCreate of Yad2Scraper.parse_listing.
ListingCreate(listing_data, title, description, price, city, category) ==
    [title |-> title,
     description |-> description,
     price |-> price[1],
     currency |-> <<"I", "L", "S">>,
     category |-> category,
     condition |-> normalize_condition(description),
     city |-> city,
     seller_name |-> listing_data.seller,
     source_platform |-> "yad2",
     source_url |-> listing_data.link,
     source_id |-> source_id_of(listing_data.link)]

\* Yad2Scraper.parse_listing on a dict of _extract_listing_data: the
\* listing, or None.
yad2_parse_listing(listing_data) ==
    LET title == normalize_text(Some(listing_data.title))
        description == normalize_text(Some(listing_data.description))
        price == extract_price(Some(listing_data.price_text))
        city == extract_city(Some(listing_data.location))
        category == categorize_product(title, description)
    IN  IF price_falsy(price) THEN None
        ELSE Some(ListingCreate(listing_data, title, description, price,
                                city, category))

\* The parse_listing of a subclass on a raw listing: it raises, returns
\* None or returns the listing of the raw listing.
parse_listing(raw_listing) ==
    IF raw_listing.parse = "raises" THEN Raised("Exception")
    ELSE IF raw_listing.parse = "none" THEN Returned(None)
    ELSE Returned(Some([source_id |-> raw_listing.id]))

\* The loop of scrape_listings with the parsing outside a try of its own:
\* an exception of parse_listing ends the loop.
RECURSIVE scrape_loop_without_inner_try(_, _, _)
scrape_loop_without_inner_try(raw_listings, k, all_listings) ==
    IF k > Len(raw_listings) THEN all_listings
    ELSE LET parsed_listing == parse_listing(raw_listings[k])
         IN  IF parsed_listing.exc # "none" THEN all_listings
             ELSE scrape_loop_without_inner_try(raw_listings, k + 1,
                      IF parsed_listing.value[1] # None
                      THEN Append(all_listings, parsed_listing.value[1][1])
                      ELSE all_listings)

\* for raw_listing in raw_listings: ... from the k-th raw listing on.
RECURSIVE scrape_loop(_, _, _)
scrape_loop(raw_listings, k, all_listings) ==
    IF k > Len(raw_listings) THEN all_listings
    ELSE LET parsed_listing == parse_listing(raw_listings[k])
         IN  scrape_loop(raw_listings, k + 1,
                 IF parsed_listing.exc = "none"
                    /\ parsed_listing.value[1] # None
                 THEN Append(all_listings, parsed_listing.value[1][1])
                 ELSE all_listings)

\* BaseScraper.scrape_listings on the outcome of search_listings.
scrape_listings(search) ==
    IF search.exc # "none" THEN <<>>
    ELSE scrape_loop(search.value[1], 1, <<>>)

-----------------------------------------------------------------------------
(* CLI: the scrape command and the listings table                          *)

\* db.query(Listing).filter(source_platform == ..., source_id == ...)
\* .first() is not None.  SessionLocal is made with autoflush=False, so the
\* query reads the committed rows and not the listings added in this run; a
\* source_id of None is compared with IS NULL.
existing(committed, listing_data) ==
    \E i \in 1..Len(committed) :
        /\ committed[i].source_platform = listing_data.source_platform
        /\ committed[i].source_id = listing_data.source_id

\* for listing_data in listings: ... from the k-th listing on; the result
\* is the listings added to the session.
RECURSIVE save_loop(_, _, _, _)
save_loop(committed, listings, k, added) ==
    IF k > Len(listings) THEN added
    ELSE save_loop(committed, listings, k + 1,
             IF ~existing(committed, listings[k])
             THEN Append(added, listings[k])
             ELSE added)

\* The listings that the scrape command gets from the platform's scraper:
\* those of Yad2Scraper.scrape_listings, nothing from Facebook (its
\* search_listings returns []), and no run at all for another platform.
scraped_listings(platform, scraped) ==
    IF platform = "yad2" THEN scraped ELSE <<>>

\* The table after a run of scrape: db.commit() inserts the added listings.
scrape(committed, platform, scraped) ==
    IF platform \notin {"yad2", "facebook"} THEN committed
    ELSE committed
         \o save_loop(committed, scraped_listings(platform, scraped), 1, <<>>)

\* saved_count of the run.
saved_count(committed, platform, scraped) ==
    Len(scrape(committed, platform, scraped)) - Len(committed)

-----------------------------------------------------------------------------
(* Inputs                                                                  *)

\* All str over an alphabet up to a length.
Strings(alphabet, n) == UNION {[1..k -> alphabet] : k \in 0..n}

OptionalStrings(alphabet, n) ==
    {None} \cup {Some(s) : s \in Strings(alphabet, n)}

MaxNormLen == 4

NormAlphabet == {"a", "1", "_", "!", " ", "\t", "U+05D0"}

NormalizeArgs == OptionalStrings(NormAlphabet, MaxNormLen)

MaxPriceLen == 4

PriceAlphabet ==
    {"0", "1", "5", ",", ".", "$", "U+20AA", "U+20AC", "-"}

PriceArgs == OptionalStrings(PriceAlphabet, MaxPriceLen)

\* All concatenations of up to n of the given fragments.
RECURSIVE Concatenations(_, _)
Concatenations(fragments, n) ==
    IF n = 0 THEN {<<>>}
    ELSE LET shorter == Concatenations(fragments, n - 1)
         IN  shorter \cup {s \o f : s \in shorter, f \in fragments}

MaxCityFragments == 3

\* Pieces of location text: Haifa in Hebrew, in two English spellings and
\* with a dotless i (U+0131), Tel Aviv in lower case and in two halves, and a
\* blank.
CityFragments ==
    { <<"U+05D7", "U+05D9", "U+05E4", "U+05D4">>,
      <<"h", "a", "U+0131", "f", "a">>,
      <<"H", "a", "i", "f", "a">>,
      <<"H", "A", "I", "F", "A">>,
      <<"t", "e", "l", " ", "a", "v", "i", "v">>,
      <<"T", "e", "l">>,
      <<"A", "v", "i", "v">>,
      <<" ">> }

CityArgs ==
    {None} \cup {Some(s) : s \in Concatenations(CityFragments, MaxCityFragments)}

MaxTitleFragments == 2

MaxDescriptionFragments == 1

\* Pieces of title text with keywords of every category, "AMD" with a
\* keyword of two of them, and "video" with none.
ProductFragments ==
    { <<"A", "M", "D">>, <<"R", "T", "X">>, <<"m", "b">>, <<"G", "B">>,
      <<"S", "S", "D">>, <<"p", "o", "w", "e", "r">>, <<"f", "a", "n">>,
      <<"c", "a", "s", "e">>, <<"P", "C">>,
      <<"U+05DE", "U+05D7", "U+05E9", "U+05D1">>,
      <<"v", "i", "d", "e", "o">> }

\* Pieces of description text: "card" makes the keyword "video card" with
\* a title that ends in "video".
DescriptionFragments ==
    { <<"c", "a", "r", "d">>, <<"A", "M", "D">>, <<"R", "T", "X">> }

ProductArgs ==
    [title : Concatenations(ProductFragments, MaxTitleFragments),
     description :
         Concatenations(DescriptionFragments, MaxDescriptionFragments)]

MaxVram == 9

MaxPriceHalves == 2

\* ComponentSpecs below and at the cap of the other-components score, with
\* every gpu_vram_gb around the penalty threshold, and with a negative
\* cpu_score that makes the RVI negative.
ComponentInputs ==
    [cpu_score : {RatInt(-85), RatInt(0), RatInt(85)},
     gpu_score : {RatInt(0), RatInt(92)},
     ram_gb : {0, 16, 128},
     storage_gb : {500, 4000},
     gpu_vram_gb : 0..MaxVram,
     platform_score : {Rat(1, 2), RatInt(1), Rat(3, 2)},
     liquidity_score : {RatInt(1), Rat(3, 2)},
     condition_score : {Rat(1, 2), RatInt(1)}]

\* ComponentSpecs at the ends of the score range, with a negative ram_gb
\* (the dataclass validates nothing) and with every modifier 1.0.
ExtremeComponentInputs ==
    [cpu_score : {RatInt(0), RatInt(100)},
     gpu_score : {RatInt(0), RatInt(100)},
     ram_gb : {-32, 128},
     storage_gb : {500, 4000},
     gpu_vram_gb : 0..MaxVram,
     platform_score : {RatInt(1)},
     liquidity_score : {RatInt(1)},
     condition_score : {RatInt(1)}]

\* Negative, zero, fractional and whole prices, and the price 4500.
PriceInputs ==
    {Rat(k, 2) : k \in (-2)..MaxPriceHalves} \cup {RatInt(4500)}

RviInputs == {RatInt(0), Rat(289, 4), RatInt(100)}

-----------------------------------------------------------------------------
(* State machine: one call of one function on one input.                   *)

\* The variables of the parts that take no part in a behaviour.
Idle(unused) ==
    /\ "calls" \in unused => calls = <<>>
    /\ "ollama_settings" \in unused => ollama_settings = OllamaSettings
    /\ "threads" \in unused => threads = <<>>
    /\ "db" \in unused => db = <<>>

Init ==
    /\ pc = "call"
    /\ result = NoResult
    /\ service = ScoringService
    /\ calls = <<>>
    /\ Idle({"ollama_settings", "threads", "db"})
    /\ \/ fn = "normalize_text" /\ args \in NormalizeArgs
       \/ fn = "extract_price" /\ args \in PriceArgs
       \/ fn = "extract_city" /\ args \in CityArgs
       \/ fn = "categorize_product" /\ args \in ProductArgs
       \/ fn = "calculate_rvi"
              /\ args \in [components :
                              ComponentInputs \cup ExtremeComponentInputs]
       \/ fn = "calculate_pvr" /\ args \in [rvi : RviInputs, price : PriceInputs]
       \/ fn = "score_listing"
              /\ args \in [price : PriceInputs, components : ComponentInputs]

NormalizeText ==
    /\ pc = "call"
    /\ fn = "normalize_text"
    /\ result' = Returned(normalize_text(args))
    /\ pc' = "done"
    /\ UNCHANGED <<fn, args, service, calls, ollama_settings, threads, db>>

ExtractPrice ==
    /\ pc = "call"
    /\ fn = "extract_price"
    /\ result' = Returned(extract_price(args))
    /\ pc' = "done"
    /\ UNCHANGED <<fn, args, service, calls, ollama_settings, threads, db>>

ExtractCity ==
    /\ pc = "call"
    /\ fn = "extract_city"
    /\ result' = Returned(extract_city(args))
    /\ pc' = "done"
    /\ UNCHANGED <<fn, args, service, calls, ollama_settings, threads, db>>

CategorizeProduct ==
    /\ pc = "call"
    /\ fn = "categorize_product"
    /\ result' = Returned(categorize_product(args.title, args.description))
    /\ pc' = "done"
    /\ UNCHANGED <<fn, args, service, calls, ollama_settings, threads, db>>

CalculateRvi ==
    /\ pc = "call"
    /\ fn = "calculate_rvi"
    /\ result' = Returned(calculate_rvi(service, args.components))
    /\ pc' = "done"
    /\ UNCHANGED <<fn, args, service, calls, ollama_settings, threads, db>>

CalculatePvr ==
    /\ pc = "call"
    /\ fn = "calculate_pvr"
    /\ result' = Returned(calculate_pvr(service, args.rvi, args.price))
    /\ pc' = "done"
    /\ UNCHANGED <<fn, args, service, calls, ollama_settings, threads, db>>

ScoreListing ==
    /\ pc = "call"
    /\ fn = "score_listing"
    /\ result' = score_listing(service, args.price, args.components)
    /\ calls' = score_listing_calls(service, args.price, args.components)
    /\ pc' = "done"
    /\ UNCHANGED <<fn, args, service, ollama_settings, threads, db>>

Next ==
    \/ NormalizeText
    \/ ExtractPrice
    \/ ExtractCity
    \/ CategorizeProduct
    \/ CalculateRvi
    \/ CalculatePvr
    \/ ScoreListing

Spec == Init /\ [][Next]_vars

Done(f) == pc = "done" /\ fn = f

\* The value the call returned.
Value == result.value[1]

-----------------------------------------------------------------------------
(* normalize_text: properties                                              *)

\* The characters of s that are alphanumeric or in the Hebrew block.
RECURSIVE AlnumOrHebrew(_)
AlnumOrHebrew(s) ==
    IF s = <<>> THEN <<>>
    ELSE IF IsAlnum(Head(s)) \/ Head(s) \in HebrewBlock
         THEN <<Head(s)>> \o AlnumOrHebrew(Tail(s))
         ELSE AlnumOrHebrew(Tail(s))

\* C1: normalize_text is idempotent: normalising the output of
\* normalize_text again returns that output unchanged.
C1_Idempotent ==
    Done("normalize_text") =>
        normalize_text(Some(Value)) = Value

\* C9: the output of normalize_text has no leading or trailing whitespace
\* and no two consecutive whitespace characters.
C9_WhitespaceCollapsed ==
    Done("normalize_text") =>
        LET out == Value
        IN  /\ out # <<>> => ~IsSpace(out[1]) /\ ~IsSpace(out[Len(out)])
            /\ \A i \in 1..(Len(out) - 1) :
                   ~(IsSpace(out[i]) /\ IsSpace(out[i + 1]))

\* C10: every character of the output of normalize_text is alphanumeric,
\* whitespace or in the Hebrew block, and the alphanumeric and Hebrew
\* characters of the input are all kept, in order.
C10_OnlyAlnumSpaceHebrew ==
    Done("normalize_text") =>
        LET out == Value
            inp == IF args = None THEN <<>> ELSE args[1]
        IN  /\ \A i \in 1..Len(out) :
                   IsAlnum(out[i]) \/ IsSpace(out[i]) \/ out[i] \in HebrewBlock
            /\ AlnumOrHebrew(out) = AlnumOrHebrew(inp)

-----------------------------------------------------------------------------
(* extract_price: properties                                               *)

RECURSIVE Pow10(_)
Pow10(n) == IF n = 0 THEN 1 ELSE 10 * Pow10(n - 1)

\* The number written by the digits s[a..b], most significant first.
RECURSIVE NumberAt(_, _, _)
NumberAt(s, a, b) ==
    IF a > b THEN 0
    ELSE DigitValue(s[a]) * Pow10(b - a) + NumberAt(s, a + 1, b)

AllDigits(s, a, b) == \A k \in a..b : k <= Len(s) /\ IsDigit(s[k])

DigitAt(s, k) == k <= Len(s) /\ IsDigit(s[k])

PointAt(s, k) == k <= Len(s) /\ s[k] = "."

\* C7: extract_price deletes the currency glyphs and the commas, and
\* returns the value of the first decimal-number token of what remains:
\* the maximal digit run that starts at the first digit, with a point and
\* one or two digits after it when they follow.
C7_FirstDecimalToken ==
    (Done("extract_price") /\ ~Falsy(args)) =>
        LET c == SelectSeq(args[1],
                     LAMBDA ch : ch \notin {"U+20AA", "$", "U+20AC", ","})
        IN  (\E k \in 1..Len(c) : IsDigit(c[k])) =>
            \E i \in 1..Len(c), n \in 1..Len(c), f \in 0..2 :
               /\ ~(\E j \in 1..(i - 1) : IsDigit(c[j]))
               /\ AllDigits(c, i, i + n - 1)
               /\ ~DigitAt(c, i + n)
               /\ f = 0 => ~(PointAt(c, i + n) /\ DigitAt(c, i + n + 1))
               /\ f > 0 => /\ PointAt(c, i + n)
                           /\ AllDigits(c, i + n + 1, i + n + f)
                           /\ f = 2 \/ ~DigitAt(c, i + n + 2)
               /\ result = Returned(Some(Decimal(
                      NumberAt(c, i, i + n - 1) * Pow10(f)
                          + NumberAt(c, i + n + 1, i + n + f), f)))

\* "1,50" is read as 150.
C7_Witness ==
    /\ Done("extract_price")
    /\ args = Some(<<"1", ",", "5", "0">>)
    /\ result = Returned(Some([m |-> 150, e |-> 0]))

\* C8: extract_price never raises; it returns None exactly when the text
\* is absent, empty or without a digit, and a number otherwise.
C8_NoneIffNoDigit ==
    Done("extract_price") =>
        /\ result.exc = "none"
        /\ Value = None <=>
               (Falsy(args) \/ ~(\E k \in 1..Len(args[1]) : IsDigit(args[1][k])))
        /\ Value # None =>
               (Value[1].m \in Nat /\ Value[1].e \in Nat)

\* A malformed text without a digit (dollar, minus, point, comma) has been
\* answered with None, without an exception.
C8_Witness ==
    /\ Done("extract_price")
    /\ args = Some(<<"$", "-", ".", ",">>)
    /\ result = Returned(None)

-----------------------------------------------------------------------------
(* extract_city: properties                                                *)

\* The positions of the gazetteer entries found in the lower-cased text.
MatchingCities ==
    IF Falsy(args) THEN {}
    ELSE {k \in 1..Len(cities) :
              str_contains(str_lower(args[1]), str_lower(cities[k]))}

IsHebrewEntry(city) ==
    \A i \in 1..Len(city) : city[i] \in HebrewLetters \/ city[i] = " "

\* C6: extract_city returns, in its gazetteer spelling, the earliest entry
\* of the gazetteer (Hebrew entries first, English entries after them)
\* whose lower-cased form is in the lower-cased text, also when a later
\* entry is in the text too; it returns None exactly when no entry is.
C6_FirstGazetteerEntry ==
    Done("extract_city") =>
        /\ \A h, e \in 1..Len(cities) :
               (IsHebrewEntry(cities[h]) /\ ~IsHebrewEntry(cities[e])) => h < e
        /\ result.exc = "none"
        /\ LET matching == MatchingCities
           IN  /\ Value = None <=> matching = {}
               /\ matching # {} =>
                      \E k \in matching :
                          /\ \A j \in matching : k <= j
                          /\ Value = Some(cities[k])

\* "HAIFA" followed by the Hebrew name: the English entry matches as well,
\* and earlier in the text, and the Hebrew entry is the one returned.
C6_Witness ==
    /\ Done("extract_city")
    /\ args = Some(<<"H", "A", "I", "F", "A", "U+05D7", "U+05D9", "U+05E4", "U+05D4">>)
    /\ Cardinality(MatchingCities) = 2
    /\ result = Returned(Some(<<"U+05D7", "U+05D9", "U+05E4", "U+05D4">>))

-----------------------------------------------------------------------------
(* categorize_product: properties                                          *)

CategoryOrder ==
    <<"cpu", "gpu", "motherboard", "ram", "storage", "psu", "cooling",
      "case", "complete_build">>

\* The positions of the keyword sets with a keyword in the lower-cased
\* "title description" text.
MatchingCategories ==
    LET text == str_lower(args.title \o <<" ">> \o args.description)
    IN  {k \in 1..Len(categories) :
             \E i \in 1..Len(categories[k].keywords) :
                 str_contains(text, categories[k].keywords[i])}

\* C5: categorize_product tests the nine keyword sets in the order cpu,
\* gpu, motherboard, ram, storage, psu, cooling, case, complete_build and
\* returns the earliest category of that order with a keyword in the
\* lower-cased text, also when later categories have keywords in it.
C5_EarliestCategory ==
    Done("categorize_product") =>
        /\ Len(categories) = Len(CategoryOrder)
        /\ \A k \in 1..Len(categories) :
               categories[k].category = CategoryOrder[k]
        /\ LET matching == MatchingCategories
           IN  matching # {} =>
                   \E k \in matching :
                       /\ \A j \in matching : k <= j
                       /\ result = Returned(CategoryOrder[k])

\* "AMD" is a keyword of cpu and of gpu, and the answer is cpu.
C5_Witness ==
    /\ Done("categorize_product")
    /\ args = [title |-> <<"A", "M", "D">>, description |-> <<>>]
    /\ MatchingCategories = {1, 2}
    /\ result = Returned("cpu")

-----------------------------------------------------------------------------
(* ScoringService: properties                                              *)

\* C2: score_listing raises ValueError, and returns nothing, for every
\* price <= 0, zero as well as negative, whatever the ComponentSpecs; for
\* every price > 0 it returns a ScoringResult.
C2_RejectsNonPositivePrice ==
    Done("score_listing") =>
        IF args.price.n <= 0
        THEN result = Raised("ValueError")
        ELSE /\ result.exc = "none"
             /\ Len(result.value) = 1
             /\ DOMAIN Value = {"rvi", "pvr", "final_score", "price",
                                "components", "vram_penalty_applied"}

\* The price 0 has been refused.
C2_Witness ==
    /\ Done("score_listing")
    /\ args.price = RatInt(0)
    /\ result = Raised("ValueError")

\* C3: in every ScoringResult of score_listing, vram_penalty_applied is
\* true exactly when 0 < gpu_vram_gb <= vram_penalty_threshold.
C3_PenaltyFlag ==
    (Done("score_listing") /\ result.exc = "none") =>
        (Value.vram_penalty_applied <=>
             /\ 0 < args.components.gpu_vram_gb
             /\ args.components.gpu_vram_gb <= settings.vram_penalty_threshold)

\* A listing with gpu_vram_gb equal to the threshold has been scored, with
\* the penalty flagged.
C3_Witness ==
    /\ Done("score_listing")
    /\ result.exc = "none"
    /\ args.components.gpu_vram_gb = settings.vram_penalty_threshold
    /\ Value.vram_penalty_applied

Min(a, b) == IF a <= b THEN a ELSE b

\* The value of an input float in units of 1 / unit.
Scaled(x, unit) == (x.n * unit) \div x.d

\* 128000 times the reference RVI, in integers: 80 times the
\* other-components score is min(125 ram_gb + 4 storage_gb, 8000), the
\* weights 0.4, 0.5 and 0.1 are 4, 5 and 1 tenths, each modifier is counted
\* in halves and the penalty factor 0.85 is 17 twentieths.
ReferenceRvi128000(c) ==
    LET other80 == Min(125 * c.ram_gb + 4 * c.storage_gb, 8000)
        base800 == Scaled(c.cpu_score, 1) * 4 * 80
                   + Scaled(c.gpu_score, 1) * 5 * 80
                   + other80 * 1
        modifiers8 == Scaled(c.platform_score, 2)
                      * Scaled(c.liquidity_score, 2)
                      * Scaled(c.condition_score, 2)
        penalty20 == IF 0 < c.gpu_vram_gb /\ c.gpu_vram_gb <= 8
                     THEN 17 ELSE 20
    IN  base800 * modifiers8 * penalty20

\* C4: calculate_rvi returns (cpu_score * cpu_weight + gpu_score *
\* gpu_weight + other_score * other_weight) * platform_score *
\* liquidity_score * condition_score, times vram_penalty_factor exactly
\* when 0 < gpu_vram_gb <= vram_penalty_threshold.
C4_RviFormula ==
    Done("calculate_rvi") =>
        result = Returned(Rat(ReferenceRvi128000(args.components), 128000))

\* 85 * 0.4 + 92 * 0.5 + 50 * 0.1 = 85, with the penalty 72.25.
C4_Witness ==
    /\ Done("calculate_rvi")
    /\ args.components =
           [cpu_score |-> RatInt(85), gpu_score |-> RatInt(92),
            ram_gb |-> 16, storage_gb |-> 500, gpu_vram_gb |-> 8,
            platform_score |-> RatInt(1), liquidity_score |-> RatInt(1),
            condition_score |-> RatInt(1)]
    /\ result = Returned(Rat(289, 4))

-----------------------------------------------------------------------------
(* normalize_text: empty and absent input                                  *)

\* C11: normalize_text returns the empty string, without raising, when
\* its input is the empty string or None.
C11_EmptyForFalsy ==
    (Done("normalize_text") /\ Falsy(args)) => result = Returned(<<>>)

\* None has been normalised to the empty string.
C11_Witness ==
    /\ Done("normalize_text")
    /\ args = None
    /\ result = Returned(<<>>)

-----------------------------------------------------------------------------
(* calculate_pvr                                                           *)

\* C12: calculate_pvr(rvi, price) returns rvi / price for every price > 0
\* (the number that gives rvi when multiplied by price) and 0 for every
\* price <= 0, and never raises.
C12_PvrOrZero ==
    Done("calculate_pvr") =>
        /\ result.exc = "none"
        /\ Len(result.value) = 1
        /\ IF args.price.n > 0
           THEN Value.n * args.price.n * args.rvi.d
                    = args.rvi.n * args.price.d * Value.d
           ELSE Value = RatInt(0)

\* calculate_pvr(100, -1) has returned 0.
C12_Witness ==
    /\ Done("calculate_pvr")
    /\ args.rvi = RatInt(100)
    /\ args.price = RatInt(-1)
    /\ result = Returned(RatInt(0))

-----------------------------------------------------------------------------
(* score_listing: pvr and final_score                                      *)

Sign(x) == IF x > 0 THEN 1 ELSE IF x < 0 THEN -1 ELSE 0

\* C13: in every ScoringResult of score_listing, pvr is rvi / price and
\* final_score is pvr * 1000, so that final_score has the sign of rvi.
C13_FinalScore ==
    (Done("score_listing") /\ result.exc = "none") =>
        /\ RatMul(Value.pvr, args.price) = Value.rvi
        /\ Value.final_score = RatMul(Value.pvr, RatInt(1000))
        /\ Sign(Value.final_score.n) = Sign(Value.rvi.n)

\* A listing with a negative RVI has been scored: its final score is
\* negative and a thousand times its pvr.
C13_Witness ==
    /\ Done("score_listing")
    /\ result.exc = "none"
    /\ Value.rvi.n < 0
    /\ Value.final_score.n < 0
    /\ Value.final_score = RatMul(Value.pvr, RatInt(1000))

-----------------------------------------------------------------------------
(* calculate_rvi: the other-components score                               *)

\* ComponentSpecs whose RVI is the other-components score times its
\* weight: no CPU, no GPU, neutral modifiers.
OnlyOtherComponents(c) ==
    /\ c.cpu_score = RatInt(0)
    /\ c.gpu_score = RatInt(0)
    /\ c.gpu_vram_gb = 0
    /\ c.platform_score = RatInt(1)
    /\ c.liquidity_score = RatInt(1)
    /\ c.condition_score = RatInt(1)

\* C14: the other-components score of calculate_rvi is
\* min(ram_gb / 32 * 50 + storage_gb / 1000 * 50, 100), that is, 80 times
\* the score is min(125 ram_gb + 4 storage_gb, 8000): it never exceeds
\* 100, is exactly 100 for ram_gb = 128 and storage_gb = 4000, and is
\* never below 0 for non-negative ram_gb and storage_gb.
C14_OtherScoreCapped ==
    Done("calculate_rvi") =>
        LET c == args.components
            o == other_score(c)
        IN  /\ o = Rat(Min(125 * c.ram_gb + 4 * c.storage_gb, 8000), 80)
            /\ o.n <= 100 * o.d
            /\ (c.ram_gb >= 0 /\ c.storage_gb >= 0) => o.n >= 0
            /\ (c.ram_gb = 128 /\ c.storage_gb = 4000) => o = RatInt(100)
            /\ OnlyOtherComponents(c) =>
                   result = Returned(RatMul(o, settings.other_weight))

\* With 128 GB of RAM and 4000 GB of storage and nothing else, the RVI is
\* 100 * 0.1.
C14_Witness ==
    /\ Done("calculate_rvi")
    /\ OnlyOtherComponents(args.components)
    /\ args.components.ram_gb = 128
    /\ args.components.storage_gb = 4000
    /\ result = Returned(RatInt(10))

-----------------------------------------------------------------------------
(* ScoringService: the weights                                             *)

WeightSum ==
    RatAdd(RatAdd(service.cpu_weight, service.gpu_weight),
           service.other_weight)

-----------------------------------------------------------------------------
(* categorize_product: the closed category set                             *)

Categories ==
    {"cpu", "gpu", "motherboard", "ram", "storage", "psu", "cooling",
     "case", "complete_build", "other"}

\* C16: for every title and description, empty ones included,
\* categorize_product returns one of the ten categories without raising,
\* and it returns "other" exactly when no keyword of the nine keyword sets
\* is in the lower-cased text.
C16_TotalOverCategories ==
    Done("categorize_product") =>
        /\ result.exc = "none"
        /\ Len(result.value) = 1
        /\ Value \in Categories
        /\ Value = "other" <=> MatchingCategories = {}

\* The empty title with the empty description is "other".
C16_Witness ==
    /\ Done("categorize_product")
    /\ args = [title |-> <<>>, description |-> <<>>]
    /\ result = Returned("other")

-----------------------------------------------------------------------------
(* extract_city: letter case                                               *)

\* str.upper() of one character: the cased letters, and the dotless i
\* (U+0131), whose upper case is the letter I.
upper_char(c) ==
    IF \E i \in 1..26 : c = LowerCase[i]
    THEN UpperCase[CHOOSE i \in 1..26 : c = LowerCase[i]]
    ELSE IF c = "U+0131" THEN "I"
    ELSE c

str_upper(s) == [i \in 1..Len(s) |-> upper_char(s[i])]

\* C17 as stated: extract_city(t), extract_city(lower(t)) and
\* extract_city(upper(t)) are the same entry, or all absent, for every t.
C17_CaseInsensitive ==
    (Done("extract_city") /\ args # None) =>
        /\ Value = extract_city(Some(str_lower(args[1])))
        /\ Value = extract_city(Some(str_upper(args[1])))

\* C17 as amended: extract_city(t) and extract_city(lower(t)) are the same
\* entry, or both absent, for every t, and extract_city(upper(t)) is the
\* same as well for every t with lower(upper(t)) = lower(t).
C17_CaseInsensitiveReversible ==
    (Done("extract_city") /\ args # None) =>
        /\ Value = extract_city(Some(str_lower(args[1])))
        /\ str_lower(str_upper(args[1])) = str_lower(args[1]) =>
               Value = extract_city(Some(str_upper(args[1])))

\* "tel aviv" has been answered with "Tel Aviv", as "TEL AVIV" is.
C17_Witness ==
    /\ Done("extract_city")
    /\ args = Some(<<"t", "e", "l", " ", "a", "v", "i", "v">>)
    /\ result = Returned(Some(<<"T", "e", "l", " ", "A", "v", "i", "v">>))
    /\ extract_city(Some(str_upper(args[1]))) = Value

-----------------------------------------------------------------------------
(* Scoring: the inputs are carried and left alone                          *)

ScoringFunctions == {"score_listing", "calculate_rvi", "calculate_pvr"}

\* C19: a call of score_listing, calculate_rvi or calculate_pvr leaves
\* every field of its arguments as it was, and the ScoringResult that
\* score_listing returns carries exactly the input price and components
\* equal to the input ComponentSpecs.
C19_InputsCarried ==
    [][(pc = "call" /\ pc' = "done" /\ fn \in ScoringFunctions) =>
           /\ args' = args
           /\ (fn = "score_listing" /\ result'.exc = "none") =>
                  /\ result'.value[1].price = args.price
                  /\ result'.value[1].components = args.components]_vars

\* A listing at half a shekel has been scored: the result holds that price
\* and the components it was given.
C19_Witness ==
    /\ Done("score_listing")
    /\ result.exc = "none"
    /\ args.price = Rat(1, 2)
    /\ Value.price = Rat(1, 2)
    /\ Value.components = args.components
    /\ args.components.gpu_vram_gb = 4

-----------------------------------------------------------------------------
(* extract_price: the sign                                                 *)

\* C20: every price that extract_price returns is non-negative; a minus
\* sign before the digits is not carried into the value.
C20_NonNegativePrice ==
    (Done("extract_price") /\ result.exc = "none" /\ Value # None) =>
        /\ Value[1].m >= 0
        /\ Value[1].e >= 0

\* "-5" has been answered with 5.
C20_Witness ==
    /\ Done("extract_price")
    /\ args = Some(<<"-", "5">>)
    /\ result = Returned(Some(Decimal(5, 0)))

-----------------------------------------------------------------------------
(* extract_price: the two patterns                                         *)

\* C24: the second (thousands separator) pattern of extract_price never
\* determines the result: whenever it matches the cleaned text the first
\* (simple number) pattern matches too, float() accepts the first pattern's
\* match, and the returned value is the value of that match; when the first
\* pattern does not match, nothing is returned.
C24_SecondPatternDead ==
    (Done("extract_price") /\ ~Falsy(args)) =>
        LET cleaned == clean_price(args[1])
            first == re_search(price_patterns[1], cleaned)
            second == re_search(price_patterns[2], cleaned)
        IN  /\ second # None => first # None
            /\ first # None =>
                   /\ float_ok(str_remove(first[1], {","}))
                   /\ Value = Some(float_of(str_remove(first[1], {","})))
            /\ first = None => Value = None

\* "1,5" has been answered with 15: the separator is gone before the
\* patterns are tried, and both patterns match the same "15".
C24_Witness ==
    /\ Done("extract_price")
    /\ args = Some(<<"1", ",", "5">>)
    /\ re_search(price_patterns[2], clean_price(args[1])) = Some(<<"1", "5">>)
    /\ re_search(price_patterns[1], clean_price(args[1])) = Some(<<"1", "5">>)
    /\ result = Returned(Some(Decimal(15, 0)))

-----------------------------------------------------------------------------
(* score_listing: the penalty flag and the stored rvi                      *)

\* The RVI of the components before any VRAM penalty.
UnpenalisedRvi(c) ==
    Rat(ReferenceRvi128000([c EXCEPT !.gpu_vram_gb = 0]), 128000)

\* C26: the rvi stored in a ScoringResult of score_listing is the
\* unpenalised RVI times vram_penalty_factor when the result's
\* vram_penalty_applied is true, and the unpenalised RVI itself when the
\* flag is false.
C26_FlagAgreesWithRvi ==
    (Done("score_listing") /\ result.exc = "none") =>
        Value.rvi = IF Value.vram_penalty_applied
                    THEN RatMul(UnpenalisedRvi(args.components),
                                service.vram_penalty)
                    ELSE UnpenalisedRvi(args.components)

\* A listing with gpu_vram_gb at the threshold has been scored: the flag is
\* set and the stored rvi is 85 * 0.85 = 72.25.
C26_Witness ==
    /\ Done("score_listing")
    /\ result.exc = "none"
    /\ args.components.gpu_vram_gb = service.vram_threshold
    /\ UnpenalisedRvi(args.components) = RatInt(85)
    /\ Value.vram_penalty_applied
    /\ Value.rvi = Rat(289, 4)

-----------------------------------------------------------------------------
(* calculate_rvi: the range of the RVI and the direction of the penalty    *)

InPenaltyRange(gpu_vram_gb) ==
    0 < gpu_vram_gb /\ gpu_vram_gb <= service.vram_threshold

NonNegative(x) == x.n >= 0

NonNegativeScoresAndModifiers(c) ==
    /\ NonNegative(c.cpu_score)
    /\ NonNegative(c.gpu_score)
    /\ NonNegative(c.platform_score)
    /\ NonNegative(c.liquidity_score)
    /\ NonNegative(c.condition_score)

\* cpu_score and gpu_score in 0..100, ram_gb and storage_gb non-negative,
\* the three modifiers 1.0.
InUnitRange(c) ==
    /\ RatLeq(RatInt(0), c.cpu_score) /\ RatLeq(c.cpu_score, RatInt(100))
    /\ RatLeq(RatInt(0), c.gpu_score) /\ RatLeq(c.gpu_score, RatInt(100))
    /\ c.ram_gb >= 0
    /\ c.storage_gb >= 0
    /\ c.platform_score = RatInt(1)
    /\ c.liquidity_score = RatInt(1)
    /\ c.condition_score = RatInt(1)

\* The returned RVI is not higher than the RVI of the same components with
\* any gpu_vram_gb outside the penalty range.
NotAboveUnpenalised(c) ==
    \A v \in 0..(MaxVram + 1) :
        ~InPenaltyRange(v) =>
            RatLeq(Value, calculate_rvi(service, [c EXCEPT !.gpu_vram_gb = v]))

\* C27 as stated: for components in the unit range calculate_rvi returns a
\* value in 0..100, and for components with non-negative scores and
\* modifiers and gpu_vram_gb in the penalty range the RVI is never higher
\* than that of the same components with gpu_vram_gb outside the range.
C27_RangeAndPenaltyDirection ==
    Done("calculate_rvi") =>
        LET c == args.components
        IN  /\ InUnitRange(c) =>
                   RatLeq(RatInt(0), Value) /\ RatLeq(Value, RatInt(100))
            /\ (NonNegativeScoresAndModifiers(c)
                    /\ InPenaltyRange(c.gpu_vram_gb)) =>
                   NotAboveUnpenalised(c)

\* C27 as amended: the same, with the second part for components whose
\* ram_gb and storage_gb are non-negative as well.
C27_RangeAndPenaltyDirectionNonNegative ==
    Done("calculate_rvi") =>
        LET c == args.components
        IN  /\ InUnitRange(c) =>
                   RatLeq(RatInt(0), Value) /\ RatLeq(Value, RatInt(100))
            /\ (NonNegativeScoresAndModifiers(c)
                    /\ c.ram_gb >= 0 /\ c.storage_gb >= 0
                    /\ InPenaltyRange(c.gpu_vram_gb)) =>
                   NotAboveUnpenalised(c)

\* Full scores, 128 GB and 4000 GB with gpu_vram_gb at the threshold: the
\* RVI is 85, and 100 with gpu_vram_gb beyond the threshold.
C27_Witness ==
    /\ Done("calculate_rvi")
    /\ InUnitRange(args.components)
    /\ args.components.cpu_score = RatInt(100)
    /\ args.components.gpu_score = RatInt(100)
    /\ args.components.ram_gb = 128
    /\ args.components.storage_gb = 4000
    /\ args.components.gpu_vram_gb = service.vram_threshold
    /\ result = Returned(RatInt(85))
    /\ calculate_rvi(service,
           [args.components EXCEPT !.gpu_vram_gb = service.vram_threshold + 1])
         = RatInt(100)

-----------------------------------------------------------------------------
(* score_listing: the calls of calculate_pvr                               *)

PvrCalls == {i \in 1..Len(calls) : calls[i].fn = "calculate_pvr"}

\* C25: within score_listing, calculate_pvr is invoked with a price > 0
\* only: once when the price is accepted, with that price and the RVI of
\* the components, and never when score_listing raises for a price <= 0.
C25_PvrOnlyWithPositivePrice ==
    Done("score_listing") =>
        /\ \A i \in PvrCalls : calls[i].args.price.n > 0
        /\ \A i \in PvrCalls : calls[i].args.price = args.price
        /\ result.exc = "none" <=> Cardinality(PvrCalls) = 1
        /\ result.exc # "none" <=> PvrCalls = {}
        /\ args.price.n <= 0 => PvrCalls = {}

\* A listing at half a shekel has been scored with one call of
\* calculate_pvr, at that price.
C25_Witness ==
    /\ Done("score_listing")
    /\ args.price = Rat(1, 2)
    /\ Len(calls) = 2
    /\ PvrCalls = {2}
    /\ calls[2].args.price = Rat(1, 2)
    /\ Value.pvr = calculate_pvr(service, calls[2].args.rvi, Rat(1, 2))

-----------------------------------------------------------------------------
(* LLM adapter: one call of one function, with the Ollama server and the   *)
(* writers of _ollama_settings as the environment.                         *)

MaxLlmLen == 2

LlmAlphabet == {"a", " "}

\* Listing texts, prompts and generated texts.
LlmTexts == Strings(LlmAlphabet, MaxLlmLen)

\* What the server does with GET /api/tags.
GetOutcomes ==
    [kind : {"connection_error", "timeout"}, status_code : {0}]
    \cup [kind : {"status"}, status_code : {200, 404, 500}]

\* What the server does with POST /api/generate.
PostOutcomes ==
    [kind : {"connection_error", "timeout", "http_error", "invalid_json",
             "no_response_field", "response_not_str"},
     response : {<<>>}]
    \cup [kind : {"ok"}, response : LlmTexts]

InitLLM ==
    /\ pc = "call"
    /\ result = NoResult
    /\ calls = <<>>
    /\ service = ScoringService
    /\ Idle({"threads", "db"})
    /\ ollama_settings \in [enable_llm : BOOLEAN]
    /\ \/ fn = "llm_health_check" /\ args = <<>>
       \/ fn = "llm_generate"
              /\ args \in [prompt : LlmTexts,
                           system_prompt : {None, Some(<<>>), Some(<<"a">>)}]
       \/ fn = "llm_normalize_text" /\ args \in [text : LlmTexts]

LlmHealthCheck ==
    /\ pc = "call"
    /\ fn = "llm_health_check"
    /\ \E get \in GetOutcomes :
           /\ result' = llm_health_check(ollama_settings, get)
           /\ calls' = llm_health_check_calls(ollama_settings, get)
    /\ pc' = "done"
    /\ UNCHANGED <<fn, args, service, ollama_settings, threads, db>>

LlmGenerate ==
    /\ pc = "call"
    /\ fn = "llm_generate"
    /\ \E post \in PostOutcomes :
           /\ result' = llm_generate(ollama_settings, args.prompt,
                                     args.system_prompt, post)
           /\ calls' = llm_generate_calls(ollama_settings, args.prompt,
                                          args.system_prompt, post)
    /\ pc' = "done"
    /\ UNCHANGED <<fn, args, service, ollama_settings, threads, db>>

\* llm_normalize_text reads _ollama_settings.enable_llm itself and again
\* inside llm_generate; the object is a module global that other code
\* assigns to, so the second reading may find another value.
LlmNormalizeText ==
    /\ pc = "call"
    /\ fn = "llm_normalize_text"
    /\ \E post \in PostOutcomes, generating \in [enable_llm : BOOLEAN] :
           /\ result' = llm_normalize_text(ollama_settings, generating,
                                           args.text, post)
           /\ calls' = llm_normalize_text_calls(ollama_settings, generating,
                                                args.text, post)
           /\ ollama_settings' =
                  IF is_llm_enabled(ollama_settings) THEN generating
                  ELSE ollama_settings
    /\ pc' = "done"
    /\ UNCHANGED <<fn, args, service, threads, db>>

NextLLM ==
    \/ LlmHealthCheck
    \/ LlmGenerate
    \/ LlmNormalizeText

SpecLLM == InitLLM /\ [][NextLLM]_vars

-----------------------------------------------------------------------------
(* LLM adapter: properties                                                 *)

\* The HTTP requests among the calls made.
Requests ==
    {i \in 1..Len(calls) : calls[i].fn \in {"requests.get", "requests.post"}}

\* What is_llm_enabled() returned, each time it was called.
EnabledReadings ==
    [i \in {j \in 1..Len(calls) : calls[j].fn = "is_llm_enabled"} |->
         calls[i].returned]

\* The outcome of the one request made.
RequestOutcome == calls[CHOOSE i \in Requests : TRUE].outcome

\* C22: llm_normalize_text never raises; it returns the text it was given,
\* without a request, when the LLM is disabled, and also when llm_generate
\* fails with LLMDisabledError (the LLM disabled by then) or with
\* LLMRequestError (any failed request); it returns the generated text,
\* stripped, exactly when the request succeeds.
C22_NormalizeNeverFails ==
    Done("llm_normalize_text") =>
        /\ result.exc = "none"
        /\ Len(result.value) = 1
        /\ ~calls[1].returned => (Value = args.text /\ Requests = {})
        /\ (calls[1].returned /\ ~calls[2].returned) =>
               (Value = args.text /\ Requests = {})
        /\ (calls[1].returned /\ calls[2].returned) =>
               /\ Cardinality(Requests) = 1
               /\ RequestOutcome.kind # "ok" => Value = args.text
               /\ RequestOutcome.kind = "ok" =>
                      Value = str_strip(RequestOutcome.response)

\* "a" has been given back as it was after the request timed out.
C22_Witness ==
    /\ Done("llm_normalize_text")
    /\ args.text = <<"a">>
    /\ Cardinality(Requests) = 1
    /\ RequestOutcome.kind = "timeout"
    /\ result = Returned(<<"a">>)

\* C23: llm_generate raises LLMDisabledError, without a request, whenever
\* the LLM is disabled; enabled, it returns the stripped text of a good
\* response and raises LLMRequestError, and nothing else, for every other
\* outcome of the request.  llm_health_check never raises: it returns False
\* without a request when the LLM is disabled, False when the request fails
\* and True exactly for a response with status 200.
C23_GenerateAndHealthCheckErrors ==
    /\ Done("llm_generate") =>
           /\ result.exc \in {"none", "LLMDisabledError", "LLMRequestError"}
           /\ ~ollama_settings.enable_llm =>
                  (result = Raised("LLMDisabledError") /\ Requests = {})
           /\ ollama_settings.enable_llm =>
                  /\ Cardinality(Requests) = 1
                  /\ RequestOutcome.kind # "ok" =>
                         result = Raised("LLMRequestError")
                  /\ RequestOutcome.kind = "ok" =>
                         result = Returned(str_strip(RequestOutcome.response))
    /\ Done("llm_health_check") =>
           /\ result.exc = "none"
           /\ Len(result.value) = 1
           /\ ~ollama_settings.enable_llm => (~Value /\ Requests = {})
           /\ ollama_settings.enable_llm =>
                  /\ Cardinality(Requests) = 1
                  /\ Value <=> (RequestOutcome.kind = "status"
                                    /\ RequestOutcome.status_code = 200)

\* The server has answered with a "response" that is not a str, and
\* llm_generate has raised LLMRequestError.
C23_Witness ==
    /\ Done("llm_generate")
    /\ ollama_settings.enable_llm
    /\ Cardinality(Requests) = 1
    /\ RequestOutcome.kind = "response_not_str"
    /\ result = Raised("LLMRequestError")

-----------------------------------------------------------------------------
(* Scrapers: one call of parse_listing or of scrape_listings               *)

\* Dicts as _extract_listing_data builds them: title and price_text are
\* never empty there.
ListingData ==
    [title : {<<"R", "T", "X", " ", "3", "0", "8", "0">>, <<"a">>},
     description : {<<>>,
                    <<"b", "r", "a", "n", "d", " ", "n", "e", "w">>,
                    <<"I", "n", "t", "e", "l", " ", "c", "p", "u">>},
     price_text : {<<"0">>,
                   <<"1", "5">>,
                   <<"1", ",", "5">>,
                   <<"U+20AA", "0", ".", "0">>,
                   <<"x">>,
                   <<"-", "5">>},
     location : {<<>>,
                 <<"U+05D7", "U+05D9", "U+05E4", "U+05D4">>,
                 <<"t", "e", "l", " ", "a", "v", "i", "v">>,
                 <<"x">>},
     link : {<<>>,
             <<"h", "t", "t", "p", "s", ":", "/", "/", "h", "/", "i", "t", "e", "m", "/", "1", "5">>,
             <<"h", "t", "t", "p", "s", ":", "/", "/", "h", "/", "1", "5", "/", "x", "?", "p", "=", "1">>,
             <<"h", "t", "t", "p", "s", ":", "/", "/", "h", "/", "x">>},
     seller : {<<>>, <<"a">>}]

MaxRawListings == 3

\* Raw listings of a scraper, each with what its parse_listing does.
RawListings == [id : 1..2, parse : {"listing", "none", "raises"}]

\* What search_listings does: it raises, or returns raw listings.
SearchOutcomes ==
    {Raised("Exception")}
    \cup {Returned(raw_listings) :
              raw_listings \in UNION {[1..n -> RawListings] :
                                          n \in 0..MaxRawListings}}

InitScraper ==
    /\ pc = "call"
    /\ result = NoResult
    /\ service = ScoringService
    /\ Idle({"calls", "ollama_settings", "threads", "db"})
    /\ \/ fn = "parse_listing" /\ args \in ListingData
       \/ fn = "scrape_listings" /\ args \in [search : SearchOutcomes]

ParseListing ==
    /\ pc = "call"
    /\ fn = "parse_listing"
    /\ result' = Returned(yad2_parse_listing(args))
    /\ pc' = "done"
    /\ UNCHANGED <<fn, args, service, calls, ollama_settings, threads, db>>

ScrapeListings ==
    /\ pc = "call"
    /\ fn = "scrape_listings"
    /\ result' = Returned(scrape_listings(args.search))
    /\ pc' = "done"
    /\ UNCHANGED <<fn, args, service, calls, ollama_settings, threads, db>>

NextScraper ==
    \/ ParseListing
    \/ ScrapeListings

SpecScraper == InitScraper /\ [][NextScraper]_vars

-----------------------------------------------------------------------------
(* Scrapers: properties                                                    *)

\* C28: parse_listing returns None exactly when extract_price finds no
\* price in the price text; for every price that extract_price returns it
\* returns a listing with that price, with the category of
\* categorize_product on the normalized title and description, and with the
\* city of extract_city on the location, absent when that is absent.
C28_SkippedIffNoPrice ==
    Done("parse_listing") =>
        LET price == extract_price(Some(args.price_text))
        IN  /\ result.exc = "none"
            /\ Value = None <=> price = None
            /\ price # None =>
                   /\ Value # None
                   /\ Value[1].price = price[1]
                   /\ Value[1].category =
                          categorize_product(
                              normalize_text(Some(args.title)),
                              normalize_text(Some(args.description)))
                   /\ Value[1].city = extract_city(Some(args.location))

\* The listings that the parsing of the raw listings yields, in order.
ParsedListings(raw_listings) ==
    LET kept == SelectSeq(raw_listings, LAMBDA r : r.parse = "listing")
    IN  [i \in 1..Len(kept) |-> [source_id |-> kept[i].id]]

\* C29: scrape_listings never raises; it returns, in the original order,
\* exactly the listings of the raw listings whose parse_listing returned a
\* listing, whatever the parsing of the raw listings before and after them
\* did, and the empty list when search_listings raises.
C29_FailuresIsolated ==
    Done("scrape_listings") =>
        /\ result.exc = "none"
        /\ Len(result.value) = 1
        /\ args.search.exc # "none" => Value = <<>>
        /\ args.search.exc = "none" =>
               Value = ParsedListings(args.search.value[1])

\* Three raw listings, the second of which made parse_listing raise: the
\* first and the third are returned.
C29_Witness ==
    /\ Done("scrape_listings")
    /\ args.search = Returned(<< [id |-> 1, parse |-> "listing"],
                                 [id |-> 2, parse |-> "raises"],
                                 [id |-> 2, parse |-> "listing"] >>)
    /\ result = Returned(<< [source_id |-> 1], [source_id |-> 2] >>)

-----------------------------------------------------------------------------
(* CLI: runs of the scrape command, one after the other                    *)

MaxBatch == 2

MaxRows == 3

\* Scraped listings, by the two fields that the scrape command compares.
ScrapedListings ==
    [source_platform : {"yad2"},
     source_id : {None, Some(<<"7">>), Some(<<"1", "5">>)}]

Batches == UNION {[1..n -> ScrapedListings] : n \in 0..MaxBatch}

InitCli ==
    /\ pc = "call"
    /\ fn = "scrape"
    /\ args = <<>>
    /\ result = NoResult
    /\ service = ScoringService
    /\ db = <<>>
    /\ Idle({"calls", "ollama_settings", "threads"})

\* One run of the scrape command, on a table with fewer than MaxRows rows.
Scrape ==
    /\ fn = "scrape"
    /\ Len(db) < MaxRows
    /\ \E platform \in {"yad2", "facebook", "ebay"}, scraped \in Batches :
           /\ args' = [platform |-> platform,
                       listings |-> scraped_listings(platform, scraped)]
           /\ db' = scrape(db, platform, scraped)
           /\ result' = Returned(saved_count(db, platform, scraped))
    /\ pc' = "done"
    /\ UNCHANGED <<fn, service, calls, ollama_settings, threads>>

NextCli == Scrape

SpecCli == InitCli /\ [][NextCli]_vars

\* C30: the listings table holds at most one row for each pair
\* (source_platform, source_id), after any number of runs of scrape.
C30_OneRowPerSource ==
    \A i, j \in 1..Len(db) :
        (/\ db[i].source_platform = db[j].source_platform
         /\ db[i].source_id = db[j].source_id) => i = j

-----------------------------------------------------------------------------
(* ScoringService: calls of several threads on one service                 *)

MaxThreads == 2

Threads == 1..MaxThreads

\* The components of C4's witness, at the penalty threshold and beyond it.
ThreadComponents ==
    {[cpu_score |-> RatInt(85), gpu_score |-> RatInt(92),
      ram_gb |-> 16, storage_gb |-> 500, gpu_vram_gb |-> v,
      platform_score |-> RatInt(1), liquidity_score |-> RatInt(1),
      condition_score |-> RatInt(1)] : v \in {8, 9}}

ThreadCalls ==
    [fn : {"score_listing"},
     args : [price : {RatInt(0), RatInt(4500)},
             components : ThreadComponents]]
    \cup [fn : {"calculate_rvi"}, args : [components : ThreadComponents]]
    \cup [fn : {"calculate_pvr"},
          args : [rvi : {RatInt(100)}, price : {RatInt(-1), Rat(1, 2)}]]

\* A thread about to make its call: no local variable is bound yet.
NewThread(call) ==
    [fn |-> call.fn, args |-> call.args, pc |-> "call",
     rvi |-> None, pvr |-> None, result |-> NoResult]

InitConcurrent ==
    /\ pc = "threads"
    /\ fn = "score"
    /\ args = <<>>
    /\ result = NoResult
    /\ service = ScoringService
    /\ threads \in [Threads -> {NewThread(call) : call \in ThreadCalls}]
    /\ Idle({"calls", "ollama_settings", "db"})

At(t, f, where) == threads[t].fn = f /\ threads[t].pc = where

\* score_listing, lines 158-160: the validation of the price.
ThreadValidate(t) ==
    /\ At(t, "score_listing", "call")
    /\ threads' =
           IF RatLeq(threads[t].args.price, RatInt(0))
           THEN [threads EXCEPT ![t].pc = "done",
                                ![t].result = Raised("ValueError")]
           ELSE [threads EXCEPT ![t].pc = "rvi"]
    /\ UNCHANGED <<pc, fn, args, result, service, calls, ollama_settings, db>>

\* score_listing, line 163: rvi = self.calculate_rvi(components).
ThreadRvi(t) ==
    /\ At(t, "score_listing", "rvi")
    /\ threads' =
           [threads EXCEPT
                ![t].rvi = Some(calculate_rvi(service,
                                              threads[t].args.components)),
                ![t].pc = "pvr"]
    /\ service' = self_after_calculate_rvi(service,
                                           threads[t].args.components)
    /\ UNCHANGED <<pc, fn, args, result, calls, ollama_settings, db>>

\* score_listing, lines 166-169: pvr = self.calculate_pvr(rvi, price).
ThreadPvr(t) ==
    /\ At(t, "score_listing", "pvr")
    /\ threads' =
           [threads EXCEPT
                ![t].pvr = Some(calculate_pvr(service, threads[t].rvi[1],
                                              threads[t].args.price)),
                ![t].pc = "result"]
    /\ UNCHANGED <<pc, fn, args, result, service, calls, ollama_settings, db>>

\* score_listing, lines 172-193: the flag, read from self.vram_threshold,
\* and the ScoringResult.
ThreadResult(t) ==
    /\ At(t, "score_listing", "result")
    /\ threads' =
           [threads EXCEPT
                ![t].result =
                    Returned(
                        [rvi |-> threads[t].rvi[1],
                         pvr |-> threads[t].pvr[1],
                         final_score |->
                             RatMul(threads[t].pvr[1], RatInt(1000)),
                         price |-> threads[t].args.price,
                         components |-> threads[t].args.components,
                         vram_penalty_applied |->
                             /\ threads[t].args.components.gpu_vram_gb > 0
                             /\ threads[t].args.components.gpu_vram_gb
                                    <= service.vram_threshold]),
                ![t].pc = "done"]
    /\ UNCHANGED <<pc, fn, args, result, service, calls, ollama_settings, db>>

\* A direct call of calculate_rvi.
ThreadCalculateRvi(t) ==
    /\ At(t, "calculate_rvi", "call")
    /\ threads' =
           [threads EXCEPT
                ![t].result =
                    Returned(calculate_rvi(service,
                                           threads[t].args.components)),
                ![t].pc = "done"]
    /\ service' = self_after_calculate_rvi(service,
                                           threads[t].args.components)
    /\ UNCHANGED <<pc, fn, args, result, calls, ollama_settings, db>>

\* A direct call of calculate_pvr.
ThreadCalculatePvr(t) ==
    /\ At(t, "calculate_pvr", "call")
    /\ threads' =
           [threads EXCEPT
                ![t].result =
                    Returned(calculate_pvr(service, threads[t].args.rvi,
                                           threads[t].args.price)),
                ![t].pc = "done"]
    /\ UNCHANGED <<pc, fn, args, result, service, calls, ollama_settings, db>>

NextConcurrent ==
    \E t \in Threads :
        \/ ThreadValidate(t)
        \/ ThreadRvi(t)
        \/ ThreadPvr(t)
        \/ ThreadResult(t)
        \/ ThreadCalculateRvi(t)
        \/ ThreadCalculatePvr(t)

SpecConcurrent == InitConcurrent /\ [][NextConcurrent]_vars

\* What the call of a thread returns when it runs alone on a new service.
Alone(thread) ==
    IF thread.fn = "score_listing"
    THEN score_listing(ScoringService, thread.args.price,
                       thread.args.components)
    ELSE IF thread.fn = "calculate_rvi"
    THEN Returned(calculate_rvi(ScoringService, thread.args.components))
    ELSE Returned(calculate_pvr(ScoringService, thread.args.rvi,
                                thread.args.price))

\* C21: in every step of every interleaving of the threads' calls the
\* fields of the shared service stay as __init__ set them, and every call
\* that has returned or raised has the outcome it has when run alone.
C21_NoInterference ==
    [][/\ service' = service
       /\ service' = ScoringService
       /\ \A t \in Threads :
              threads'[t].pc = "done" =>
                  threads'[t].result = Alone(threads'[t])]_vars

\* Thread 1 has scored a listing at the penalty threshold while thread 2,
\* scoring one beyond the threshold, is between its calculate_rvi and its
\* calculate_pvr.
C21_Witness ==
    /\ pc = "threads"
    /\ At(1, "score_listing", "done")
    /\ threads[1].result.exc = "none"
    /\ threads[1].result.value[1].rvi = Rat(289, 4)
    /\ threads[1].result.value[1].vram_penalty_applied
    /\ At(2, "score_listing", "pvr")
    /\ threads[2].rvi = Some(RatInt(85))

=============================================================================
